---- MODULE Spec2Model ----
(***************************************************************************)
(* A model of src/app/page.tsx: the TodoApp component.                     *)
(*                                                                         *)
(* The component keeps a list of todos in React state, mirrors every       *)
(* mutation into an IndexedDB object store keyed by id, and runs           *)
(* syncTodos whenever the isOnline state becomes true.  Every handler is   *)
(* an async function: it runs up to its first await with the values of the *)
(* render that created it (todos, isOnline, newTodo), is suspended while   *)
(* the database answers, and resumes with those same captured values.      *)
(*                                                                         *)
(* Database requests are answered in the order in which they were issued   *)
(* (one connection queue per database name), and timers with the same      *)
(* delay fire in the order in which they were set: both are FIFO queues.   *)
(***************************************************************************)
EXTENDS Integers, Sequences, FiniteSets, TLC

VARIABLES
    todos,      \* useState<Todo[]>([])            page.tsx:16
    newTodo,    \* useState('')                    page.tsx:17
    isOnline,   \* useState(true)                  page.tsx:18
    isSyncing,  \* useState(false)                 page.tsx:19
    store,      \* object store 'todos' of TodoDB, keyPath 'id'
    navOnline,  \* navigator.onLine, the platform's reachability state
    mounted,    \* whether the mount effects (page.tsx:21-43) have run
    now,        \* the latest value Date.now() has returned
    timers,     \* syncTodos calls suspended on setTimeout (page.tsx:101)
    queue,      \* calls suspended on `await getDB()`, oldest first
    nfail,      \* number of storage operations that have failed so far
    events,     \* number of user and connectivity events so far
    deleted,    \* ids whose deleteTodo has run to completion
    toggled,    \* the toggle that changed the list last, if a toggle did
    last        \* the step taken last, and the call it resumed or issued

vars == <<todos, newTodo, isOnline, isSyncing, store, navOnline, mounted,
          now, timers, queue, nfail, events, deleted, toggled, last>>

----------------------------------------------------------------------------
(* Bounds of the model.                                                    *)

\* Date.now() returns the values 1..MaxTime, never decreasing
MaxTime ==
    2

\* events of one run: user input (typing, add, toggle, delete) and
\* connectivity changes
MaxEvents ==
    4

\* storage failures in one run
MaxFail ==
    1

(* Texts the user types into the input field (strings as sequences of     *)
(* characters): empty, whitespace only, and text with surrounding blanks.  *)
InputTexts == { <<>>, <<" ">>, <<" ", "a", " ">> }

----------------------------------------------------------------------------
(* Strings.                                                                *)

IsSpace(c) == c = " "

RECURSIVE TrimStart(_)
TrimStart(s) ==
    IF s = <<>> THEN <<>>
    ELSE IF IsSpace(Head(s)) THEN TrimStart(Tail(s)) ELSE s

RECURSIVE TrimEnd(_)
TrimEnd(s) ==
    IF s = <<>> THEN <<>>
    ELSE IF IsSpace(s[Len(s)]) THEN TrimEnd(SubSeq(s, 1, Len(s) - 1)) ELSE s

\* String.prototype.trim
Trim(s) == TrimEnd(TrimStart(s))

----------------------------------------------------------------------------
(* Sequences of todos.                                                     *)

\* todos.filter(todo => todo.id !== id)
RECURSIVE Without(_, _)
Without(s, id) ==
    IF s = <<>> THEN <<>>
    ELSE IF Head(s).id # id THEN <<Head(s)>> \o Without(Tail(s), id)
    ELSE Without(Tail(s), id)

IdsOf(s) == { s[i].id : i \in 1..Len(s) }

\* Has(s, id): the list holds an item with this id
Has(s, id) == id \in IdsOf(s)

\* Array.prototype.findIndex(t => t.id === id): the first match
IndexOf(s, id) == CHOOSE i \in 1..Len(s) :
                    /\ s[i].id = id
                    /\ \A j \in 1..(i - 1) : s[j].id # id

\* Array.prototype.find(t => t.id === id)
Find(s, id) == s[IndexOf(s, id)]

----------------------------------------------------------------------------
(* The object store: a function from key (id) to record.                   *)

\* objectStore.put(todo): upsert by keyPath 'id'
Put(st, todo) ==
    [k \in (DOMAIN st) \cup {todo.id} |-> IF k = todo.id THEN todo ELSE st[k]]

\* objectStore.delete(id)
Del(st, id) == [k \in (DOMAIN st) \ {id} |-> st[k]]

\* Number.prototype.toString on Date.now()
MintId(t) == ToString(t)

\* The time an id was minted from (keys are compared as strings of equal
\* length, which is the order of the numbers they spell).
KeyRank(id) == CHOOSE t \in 0..(MaxTime + 1) : MintId(t) = id

\* objectStore.getAll(): every record, in ascending key order
RECURSIVE GetAllFrom(_, _)
GetAllFrom(st, keys) ==
    IF keys = {} THEN <<>>
    ELSE LET k == CHOOSE x \in keys : \A y \in keys : KeyRank(x) <= KeyRank(y)
         IN  <<st[k]>> \o GetAllFrom(st, keys \ {k})

GetAll(st) == GetAllFrom(st, DOMAIN st)

EmptyStore == [k \in {} |-> k]

----------------------------------------------------------------------------
(* Initial state: the values of the first render, before the mount effects *)
(* run.  The store holds what an earlier session left in it.               *)

OldTodo(s) == [id |-> MintId(0), text |-> <<"a">>, completed |-> FALSE,
               createdAt |-> 0, synced |-> s]

InitialStores == {EmptyStore} \cup { Put(EmptyStore, OldTodo(s)) : s \in BOOLEAN }

\* History: the list was not last changed by a toggle.
NoToggle == [id |-> "none"]

Init ==
    /\ todos = <<>>
    /\ newTodo = <<>>
    /\ isOnline = TRUE
    /\ isSyncing = FALSE
    /\ store \in InitialStores
    /\ navOnline \in BOOLEAN
    /\ mounted = FALSE
    /\ now = 1
    /\ timers = <<>>
    /\ queue = <<>>
    /\ nfail = 0
    /\ events = 0
    /\ deleted = {}
    /\ toggled = NoToggle
    /\ last = [act |-> "Init"]

----------------------------------------------------------------------------
(* Reconciliation passes in progress.  `dirty` and `failed` are history:   *)
(* whether add, toggle or delete was invoked since the pass started, and   *)
(* whether one of the pass's own store writes failed.                      *)

IsSync(op) == op.kind = "sync"
IsCall(op) == op.kind \in {"add", "toggle", "delete"}

PassesInProgress ==
    Len(timers) + Cardinality({ i \in 1..Len(queue) : IsSync(queue[i]) })

\* One more event of the run.
Event ==
    /\ events < MaxEvents
    /\ events' = events + 1

Soil(p) == [p EXCEPT !.dirty = TRUE]

SoilOp(op) == IF IsSync(op) THEN Soil(op) ELSE op

\* syncTodos up to its first await: setIsSyncing(true), then the timer, with
\* the todos of the render that created this syncTodos.
StartSync(ts) ==
    /\ isSyncing' = TRUE
    /\ timers' = Append(timers, [todos |-> ts, dirty |-> FALSE])

\* todos.map(todo => ({ ...todo, synced: true }))
MarkSynced(todo) == [todo EXCEPT !.synced = TRUE]

\* A pass that writes the snapshot back without marking it.
SyncedTodosUnmarked(ts) == ts

SyncedTodos(ts) == [i \in 1..Len(ts) |-> MarkSynced(ts[i])]

----------------------------------------------------------------------------
(* Mount, and the connectivity events.                                     *)

\* useEffect(..., [isOnline]) after an update: the effect runs when the
\* dependency has changed, and calls syncTodos when it is true.
SyncOnChange(old, new) == old # new /\ new

\* The two effects of the first render, in order: loadTodosFromDB is
\* suspended on getDB and setIsOnline(navigator.onLine) is queued; then the
\* [isOnline] effect runs with the first render's isOnline (true) and todos
\* ([]) and calls syncTodos.  The re-render that follows sees isOnline =
\* navigator.onLine; its effect can only run with isOnline = false.
Mount ==
    /\ ~mounted
    /\ mounted' = TRUE
    /\ last' = [act |-> "Mount"]
    /\ queue' = Append(queue, [kind |-> "load"])
    /\ isOnline' = navOnline
    /\ IF isOnline THEN StartSync(todos)
                   ELSE UNCHANGED <<isSyncing, timers>>
    /\ UNCHANGED <<todos, newTodo, store, navOnline, now, nfail, events,
                   deleted, toggled>>

\* window 'online' event: handleOnline, then the [isOnline] effect.
HandleOnline ==
    /\ mounted
    /\ ~navOnline
    /\ Event
    /\ navOnline' = TRUE
    /\ isOnline' = TRUE
    /\ last' = [act |-> "HandleOnline"]
    /\ IF SyncOnChange(isOnline, TRUE) THEN StartSync(todos)
                                       ELSE UNCHANGED <<isSyncing, timers>>
    /\ UNCHANGED <<todos, newTodo, store, mounted, now, queue, nfail, deleted,
                   toggled>>

\* window 'offline' event: handleOffline.
HandleOffline ==
    /\ mounted
    /\ navOnline
    /\ Event
    /\ navOnline' = FALSE
    /\ isOnline' = FALSE
    /\ last' = [act |-> "HandleOffline"]
    /\ UNCHANGED <<todos, newTodo, isSyncing, store, mounted, now, timers,
                   queue, nfail, deleted, toggled>>

----------------------------------------------------------------------------
(* The handlers of the item list, each up to its first await.              *)

\* onChange of the input field
SetNewTodo(text) ==
    /\ mounted
    /\ text # newTodo
    /\ Event
    /\ newTodo' = text
    /\ last' = [act |-> "SetNewTodo"]
    /\ UNCHANGED <<todos, isOnline, isSyncing, store, navOnline, mounted, now,
                   timers, queue, nfail, deleted, toggled>>

\* A guard that forgets to trim.
AddAcceptedUntrimmed(text) == text # <<>>

\* if (!newTodo.trim()) return;
AddAccepted(text) == Trim(text) # <<>>

\* An add that marks every new item synced, whatever the connectivity.
NewTodoRecordAlwaysSynced(text, t, online) ==
    [id |-> MintId(t), text |-> Trim(text), completed |-> FALSE,
     createdAt |-> t, synced |-> TRUE]

\* const todo: Todo = { id: Date.now().toString(), ... }, with t the value
\* Date.now() returns (both readings fall in the same millisecond)
NewTodoRecord(text, t, online) ==
    [id |-> MintId(t), text |-> Trim(text), completed |-> FALSE,
     createdAt |-> t, synced |-> online]

\* A handler was invoked: every pass in progress has seen a mutation.
SoilPasses(q) ==
    /\ timers' = [i \in 1..Len(timers) |-> Soil(timers[i])]
    /\ queue' = [i \in 1..Len(q) |-> SoilOp(q[i])]

AddTodo ==
    /\ mounted
    /\ IF ~AddAccepted(newTodo)
       THEN /\ last' = [act |-> "AddRejected"]
            /\ UNCHANGED <<todos, newTodo, isOnline, isSyncing, store,
                           navOnline, mounted, now, timers, queue, nfail,
                           events, deleted, toggled>>
       ELSE /\ Event
            /\ \E t \in now..MaxTime :
                 LET op == [kind |-> "add", todos |-> todos,
                            isOnline |-> isOnline,
                            todo |-> NewTodoRecord(newTodo, t, isOnline)]
                 IN  /\ now' = t
                     /\ SoilPasses(Append(queue, op))
                     /\ deleted' = deleted \ {op.todo.id}
                     /\ last' = [act |-> "AddTodo", op |-> op]
            /\ UNCHANGED <<todos, newTodo, isOnline, isSyncing, store,
                           navOnline, mounted, nfail, toggled>>

\* A toggle that marks the item completed instead of flipping the flag.
ToggledTodosSetsCompleted(ts, id, online) ==
    [i \in 1..Len(ts) |->
        IF ts[i].id = id
        THEN [ts[i] EXCEPT !.completed = TRUE, !.synced = online]
        ELSE ts[i]]

\* todos.map(todo => todo.id === id ? { ...todo, completed: !todo.completed,
\*                                     synced: isOnline } : todo)
ToggledTodos(ts, id, online) ==
    [i \in 1..Len(ts) |->
        IF ts[i].id = id
        THEN [ts[i] EXCEPT !.completed = ~ts[i].completed, !.synced = online]
        ELSE ts[i]]

\* The completed flag of every item of a list, in order.
CompletedFlags(ts) == [i \in 1..Len(ts) |-> ts[i].completed]

\* The toggle control of a rendered item.
ToggleTodo(id) ==
    /\ mounted
    /\ Has(todos, id)
    /\ Event
    /\ LET updatedTodos == ToggledTodos(todos, id, isOnline)
           op == [kind |-> "toggle", isOnline |-> isOnline,
                  todo |-> Find(updatedTodos, id),
                  \* history: this toggle follows a toggle of the same item
                  \* with no other change of the list between them, and the
                  \* completed flags before that first toggle
                  twice |-> toggled.id = id,
                  before |-> IF toggled.id = id THEN toggled.before ELSE <<>>,
                  orig |-> IF toggled.id = id
                           THEN toggled.before[IndexOf(todos, id)]
                           ELSE FALSE]
       IN  /\ todos' = updatedTodos
           /\ SoilPasses(Append(queue, op))
           /\ toggled' = [id |-> id, before |-> CompletedFlags(todos)]
           /\ last' = [act |-> "ToggleTodo", op |-> op]
    /\ UNCHANGED <<newTodo, isOnline, isSyncing, store, navOnline, mounted,
                   now, nfail, deleted>>

\* The delete control of a rendered item.
DeleteTodo(id) ==
    /\ mounted
    /\ Has(todos, id)
    /\ Event
    /\ LET op == [kind |-> "delete", todos |-> todos, id |-> id]
       IN  /\ SoilPasses(Append(queue, op))
           /\ last' = [act |-> "DeleteTodo", op |-> op]
    /\ UNCHANGED <<todos, newTodo, isOnline, isSyncing, store, navOnline,
                   mounted, now, nfail, deleted, toggled>>

----------------------------------------------------------------------------
(* The delay of a pass elapses.                                            *)

\* A pass that marks the list as it is when the pass completes.
PassResultOfCurrentList(syncedTodos, current) == SyncedTodos(current)

\* setTodos(syncedTodos): the list becomes the marked snapshot, whatever it
\* holds by now.
PassResult(syncedTodos, current) == syncedTodos

\* syncTodos after the timer: with no item to save the loop is skipped and
\* the pass completes at once; otherwise it is suspended on the first save.
TimerFires ==
    /\ timers # <<>>
    /\ LET p == Head(timers)
           syncedTodos == SyncedTodos(p.todos)
       IN  /\ timers' = Tail(timers)
           /\ last' = [act |-> "TimerFires", op |-> p]
           /\ IF syncedTodos = <<>>
              THEN /\ todos' = PassResult(syncedTodos, todos)
                   /\ isSyncing' = FALSE
                   /\ toggled' = NoToggle
                   /\ UNCHANGED queue
              ELSE /\ queue' = Append(queue, [kind |-> "sync",
                                              syncedTodos |-> syncedTodos,
                                              i |-> 1, dirty |-> p.dirty,
                                              failed |-> FALSE])
                   /\ UNCHANGED <<todos, isSyncing, toggled>>
    /\ UNCHANGED <<newTodo, isOnline, store, navOnline, mounted, now, nfail,
                   events, deleted>>

----------------------------------------------------------------------------
(* The database answers the oldest call.                                   *)

\* What the call does to the store when its transaction goes through.
StoreEffect(op, st) ==
    CASE op.kind = "load"   -> st
      [] op.kind = "add"    -> Put(st, op.todo)
      [] op.kind = "toggle" -> Put(st, op.todo)
      [] op.kind = "delete" -> Del(st, op.id)
      [] op.kind = "sync"   -> Put(st, op.syncedTodos[op.i])

\* A loop that gives up once the connection is gone.
MoreToSaveWhileOnline(op) == op.i < Len(op.syncedTodos) /\ isOnline

\* for (const todo of syncedTodos): the loop goes on to the next item after
\* each save, whatever isOnline has become and whatever else has started.
MoreToSave(op) == op.i < Len(op.syncedTodos)

\* The rest of the suspended function.  saveTodoDB and deleteTodoDB catch
\* every error, so their callers resume the same way whether or not the
\* write went through (ok); loadTodosFromDB sets the list only on success.
Resume(op, ok) ==
    CASE op.kind = "load" ->
            /\ todos' = IF ok THEN GetAll(store) ELSE todos
            /\ toggled' = IF ok THEN NoToggle ELSE toggled
            /\ queue' = Tail(queue)
            /\ UNCHANGED <<newTodo, isSyncing, deleted>>
      [] op.kind = "add" ->
            /\ todos' = Append(op.todos, op.todo)
            /\ newTodo' = <<>>
            /\ toggled' = NoToggle
            /\ queue' = Tail(queue)
            /\ UNCHANGED <<isSyncing, deleted>>
      [] op.kind = "toggle" ->
            /\ queue' = Tail(queue)
            /\ UNCHANGED <<todos, newTodo, isSyncing, deleted, toggled>>
      [] op.kind = "delete" ->
            /\ todos' = Without(op.todos, op.id)
            /\ toggled' = NoToggle
            /\ deleted' = deleted \cup {op.id}
            /\ queue' = Tail(queue)
            /\ UNCHANGED <<newTodo, isSyncing>>
      [] op.kind = "sync" ->
            IF MoreToSave(op)
            THEN /\ queue' = Append(Tail(queue),
                                    [op EXCEPT !.i = op.i + 1,
                                               !.failed = op.failed \/ ~ok])
                 /\ UNCHANGED <<todos, newTodo, isSyncing, deleted, toggled>>
            ELSE /\ todos' = PassResult(op.syncedTodos, todos)
                 /\ toggled' = NoToggle
                 /\ isSyncing' = FALSE
                 /\ queue' = Tail(queue)
                 /\ UNCHANGED <<newTodo, deleted>>

\* A failure handler that issues the write again.
StoreAfterRetrying(op, st, ok) == StoreEffect(op, st)

\* try { ... put / delete ... } catch (error) { console.error(...) }: a
\* failed call leaves the store as it was.
StoreAfter(op, st, ok) == IF ok THEN StoreEffect(op, st) ELSE st

DbOk ==
    /\ queue # <<>>
    /\ store' = StoreAfter(Head(queue), store, TRUE)
    /\ last' = [act |-> "DbOk", op |-> Head(queue)]
    /\ Resume(Head(queue), TRUE)
    /\ UNCHANGED <<isOnline, navOnline, mounted, now, timers, nfail, events>>

\* getDB rejects, or opening the transaction throws.
DbFail ==
    /\ queue # <<>>
    /\ nfail < MaxFail
    /\ nfail' = nfail + 1
    /\ store' = StoreAfter(Head(queue), store, FALSE)
    /\ last' = [act |-> "DbFail", op |-> Head(queue)]
    /\ Resume(Head(queue), FALSE)
    /\ UNCHANGED <<isOnline, navOnline, mounted, now, timers, events>>

----------------------------------------------------------------------------

(* What a render shows, computed from the state of that render.            *)

RECURSIVE Unsynced(_)
\* todos.filter(t => !t.synced)
Unsynced(s) ==
    IF s = <<>> THEN <<>>
    ELSE (IF ~Head(s).synced THEN <<Head(s)>> ELSE <<>>) \o Unsynced(Tail(s))

\* const unsyncedCount = todos.filter(t => !t.synced).length
unsyncedCount == Len(Unsynced(todos))

\* A banner that does not look at the connection.
BannerWheneverPending(count, online) == count > 0

\* {unsyncedCount > 0 && !isOnline && ( ... pending banner ... )}
BannerShown(count, online) == count > 0 /\ ~online

PendingBanner == BannerShown(unsyncedCount, isOnline)

\* {isSyncing && <span>Syncing...</span>}
SyncingShown == isSyncing

----------------------------------------------------------------------------

Ids == { MintId(t) : t \in 0..MaxTime }

Next ==
    \/ Mount
    \/ HandleOnline
    \/ HandleOffline
    \/ \E text \in InputTexts : SetNewTodo(text)
    \/ AddTodo
    \/ \E id \in Ids : ToggleTodo(id)
    \/ \E id \in Ids : DeleteTodo(id)
    \/ TimerFires
    \/ DbOk
    \/ DbFail

Spec == Init /\ [][Next]_vars

\* The runs in which no storage operation fails.
NextNoFail ==
    \/ Mount
    \/ HandleOnline
    \/ HandleOffline
    \/ \E text \in InputTexts : SetNewTodo(text)
    \/ AddTodo
    \/ \E id \in Ids : ToggleTodo(id)
    \/ \E id \in Ids : DeleteTodo(id)
    \/ TimerFires
    \/ DbOk

SpecNoFail == Init /\ [][NextNoFail]_vars

\* The event loop runs every timer that is due and every database callback,
\* and React runs the mount effects; nothing obliges the user or the
\* network to do anything.
FairSpec ==
    /\ Init /\ [][NextNoFail]_vars
    /\ WF_vars(Mount)
    /\ WF_vars(TimerFires)
    /\ WF_vars(DbOk)

----------------------------------------------------------------------------
(* Vocabulary of the properties.                                           *)

Resumed(kind) == last.act \in {"DbOk", "DbFail"} /\ last.op.kind = kind

\* The step taken last completed a reconciliation pass: the last save of
\* its loop returned, and setTodos(syncedTodos) ran.
PassCompleted ==
    /\ Resumed("sync")
    /\ last.op.i = Len(last.op.syncedTodos)

SyncedInMemory(id) ==
    /\ Has(todos, id)
    /\ \A i \in 1..Len(todos) : todos[i].id = id => todos[i].synced

SyncedInStore(id) == id \in DOMAIN store /\ store[id].synced

----------------------------------------------------------------------------
(* C1.  After a pass that completes with no add, toggle or delete invoked  *)
(* since it started, every item of the list the pass started with is       *)
(* synced in memory and in the store.                                      *)

----------------------------------------------------------------------------
(* C2.  add and toggle set the item's synced flag, in memory and in the    *)
(* record they write to the store, to the value isOnline had when the      *)
(* handler was invoked.                                                    *)

\* C2: the record an add builds, appends to the list and puts in the store,
\* and the items a toggle rewrites and the record it puts in the store, all
\* carry synced = isOnline as it was when the handler was invoked.
C2_SyncedIsConnectivityAtInvocation ==
    /\ last.act \in {"AddTodo", "ToggleTodo"} =>
          /\ last.op.isOnline = isOnline
          /\ last.op.todo.synced = isOnline
    /\ last.act = "ToggleTodo" =>
          \A i \in 1..Len(todos) :
              todos[i].id = last.op.todo.id => todos[i].synced = isOnline
    /\ Resumed("add") =>
          /\ todos # <<>>
          /\ todos[Len(todos)].id = last.op.todo.id
          /\ todos[Len(todos)].synced = last.op.isOnline
    /\ (Resumed("add") \/ Resumed("toggle")) /\ last.act = "DbOk" =>
          /\ last.op.todo.id \in DOMAIN store
          /\ store[last.op.todo.id].synced = last.op.isOnline

\* An add invoked offline has completed after connectivity came back: the
\* item is pending in memory and in the store although isOnline is true.
C2_Witness ==
    /\ Resumed("add")
    /\ last.act = "DbOk"
    /\ ~last.op.isOnline
    /\ isOnline
    /\ ~todos[Len(todos)].synced
    /\ ~store[last.op.todo.id].synced

----------------------------------------------------------------------------
(* C3.  Once deleteTodo(id) has completed, the item is absent from the     *)
(* list and from the store and never reappears.                            *)

\* C3 as stated: every id whose delete has completed (and that no later
\* add has minted again) is in neither the list nor the store.  It fails,
\* with every storage operation succeeding: a pass that started before the
\* delete puts its snapshot back into the store and into the list.
C3_DeletedNeverReturns ==
    \A id \in deleted : ~Has(todos, id) /\ id \notin DOMAIN store

----------------------------------------------------------------------------
(* C4.  An item added while offline is eventually synced in memory once    *)
(* connectivity is restored and stays on.                                  *)

PendingInMemory(id) ==
    \E i \in 1..Len(todos) : todos[i].id = id /\ ~todos[i].synced

\* The ids minted in this run.
SessionIds == { MintId(t) : t \in 1..MaxTime }

\* C4 as stated: if connectivity eventually stays on, every item added in
\* this run and shown pending is eventually shown synced, unless the user
\* deleted it.  It fails: a pass whose snapshot does not hold the item
\* takes it off the list, and no later pass sees it.
C4_PendingEventuallySynced ==
    <>[]isOnline =>
        \A id \in SessionIds :
            PendingInMemory(id) ~> (SyncedInMemory(id) \/ id \in deleted)

----------------------------------------------------------------------------
(* C5.  A pass starts exactly when isOnline changes from false to true.    *)

\* C5 as stated: a step starts a pass if and only if it changes isOnline
\* from false to true.  It fails at mount: the [isOnline] effect of the
\* first render runs with the initial value true and starts a pass, with
\* the platform online (isOnline unchanged) or offline (isOnline turns
\* false).
C5_PassStartsExactlyOnReconnect ==
    [][ (Len(timers') > Len(timers)) <=> (~isOnline /\ isOnline') ]_vars

----------------------------------------------------------------------------
(* C6.  Toggling the same item twice returns completed to its value before *)
(* the first toggle, in the list and in the store.                         *)

C6_RestoredInMemory ==
    (last.act = "ToggleTodo" /\ last.op.twice) =>
        CompletedFlags(todos) = last.op.before

C6_RestoredInStore ==
    /\ last.op.todo.id \in DOMAIN store
    /\ store[last.op.todo.id].completed = last.op.orig

----------------------------------------------------------------------------
(* C7.  A pass writes the snapshot taken when it was invoked, so a         *)
(* mutation made while it runs can be lost.                                *)

\* The step taken last ended a pass: its last save returned, or its
\* snapshot was empty and it ended when its timer fired.
PassFinished ==
    \/ PassCompleted
    \/ last.act = "TimerFires" /\ last.op.todos = <<>>

FinishedSnapshot == IF PassCompleted THEN last.op.syncedTodos ELSE <<>>

\* C7: a pass keeps the list it was invoked with; each save that goes
\* through puts the marked snapshot item in the store; and when the pass
\* ends the in-memory list is exactly that snapshot, every item marked
\* synced, whatever was done to the list since.
C7_PassWritesSnapshot ==
    /\ last.act \in {"Mount", "HandleOnline"} =>
          /\ timers # <<>>
          /\ timers[Len(timers)].todos = todos
    /\ (last.act = "TimerFires" /\ last.op.todos # <<>>) =>
          /\ queue # <<>>
          /\ IdsOf(queue[Len(queue)].syncedTodos) = IdsOf(last.op.todos)
    /\ (Resumed("sync") /\ last.act = "DbOk") =>
          LET item == last.op.syncedTodos[last.op.i]
          IN  item.id \in DOMAIN store /\ store[item.id] = item /\ item.synced
    /\ PassFinished =>
          /\ todos = FinishedSnapshot
          /\ \A i \in 1..Len(todos) : todos[i].synced

\* An item added while a pass was running is in the store and was never
\* deleted, yet the pass has just taken it off the list.
C7_Witness ==
    /\ PassFinished
    /\ last.op.dirty
    /\ nfail = 0
    /\ \E id \in DOMAIN store :
          /\ KeyRank(id) >= 1
          /\ id \notin deleted
          /\ ~Has(todos, id)

----------------------------------------------------------------------------
(* C8.  Item ids are unique in the store and in the list.                  *)

\* C8 as stated.  The store is keyed by id, so it cannot hold two records
\* with one id; the list can: two adds that read the same Date.now().
C8_UniqueIds ==
    /\ \A i, j \in 1..Len(todos) : i # j => todos[i].id # todos[j].id
    /\ \A k \in DOMAIN store : store[k].id = k

----------------------------------------------------------------------------
(* C9.  A storage failure during add, toggle or delete is swallowed.       *)

\* C9: in a step in which the store call of an add, toggle or delete
\* fails, the store is left as it was, the call completes (it leaves the
\* queue and nothing is issued in its place), and the list shows the
\* mutation: the added item is at its end, the toggled list stays, the
\* deleted item is off it.
C9_FailureSwallowed ==
    [][ (last'.act = "DbFail" /\ IsCall(last'.op)) =>
          /\ store' = store
          /\ queue # <<>> /\ last'.op = Head(queue)
          /\ queue' = Tail(queue)
          /\ timers' = timers
          /\ last'.op.kind = "add" =>
                /\ todos' # <<>>
                /\ todos'[Len(todos')] = last'.op.todo
                /\ newTodo' = <<>>
          /\ last'.op.kind = "toggle" => todos' = todos
          /\ last'.op.kind = "delete" => ~Has(todos', last'.op.id)
      ]_vars

\* The save of an add has failed: the item is on the list, not in the
\* store, and nothing is in flight.
C9_Witness ==
    /\ last.act = "DbFail"
    /\ last.op.kind = "add"
    /\ Has(todos, last.op.todo.id)
    /\ last.op.todo.id \notin DOMAIN store
    /\ queue = <<>>

----------------------------------------------------------------------------
(* C10.  An add with blank text is rejected and changes nothing; any other *)
(* add is accepted, online and offline.                                    *)

\* C10: addTodo returns early exactly when the trimmed input is empty, and
\* then the list, the store, the input text and the calls in flight are as
\* they were; otherwise it issues the save of an item whose text is the
\* trimmed input, with isOnline true or false.
C10_BlankAddRejected ==
    [][ /\ last'.act = "AddRejected" =>
              /\ Trim(newTodo) = <<>>
              /\ UNCHANGED <<todos, store, newTodo, queue, timers>>
        /\ last'.act = "AddTodo" =>
              /\ Trim(newTodo) # <<>>
              /\ last'.op.todo.text = Trim(newTodo)
              /\ last'.op.todo.text # <<>>
              /\ queue' # <<>>
              /\ queue'[Len(queue')] = last'.op
      ]_vars

\* An add of whitespace-only text has been rejected.
C10_Witness ==
    /\ last.act = "AddRejected"
    /\ newTodo = <<" ">>

----------------------------------------------------------------------------
(* C11.  isOnline starts as the platform's reachability, equals what the   *)
(* platform last reported after every online/offline event, and is never   *)
(* true while the platform reports offline.                                *)

\* C11 as stated: in every state isOnline is the state the platform
\* reports.  It fails in the first render: useState(true) gives isOnline
\* the value true whatever navigator.onLine is, and only the mount effect
\* replaces it.
C11_SignalReflectsPlatform ==
    /\ isOnline = navOnline
    /\ isOnline => navOnline

----------------------------------------------------------------------------
(* C12.  No cancellation: every pass that starts runs to completion, also  *)
(* when isOnline turns false or another pass starts during its delay.      *)

\* A pass leaves only by finishing, one pass per step.
C12_LeavesOnlyByFinishing ==
    /\ PassesInProgress' >= PassesInProgress - 1
    /\ PassesInProgress' < PassesInProgress => PassFinished'

\* When its timer fires the pass starts its loop at the first item of its
\* snapshot; each save that returns puts that item in the store and is
\* followed by the save of the next item, up to the last.
C12_SavesEverySnapshotItem ==
    /\ (last'.act = "TimerFires" /\ last'.op.todos # <<>>) =>
          /\ queue'[Len(queue')].kind = "sync"
          /\ queue'[Len(queue')].i = 1
          /\ Len(queue'[Len(queue')].syncedTodos) = Len(last'.op.todos)
    /\ Resumed("sync")' =>
          LET op == last'.op
              item == op.syncedTodos[op.i]
          IN  /\ item.id \in DOMAIN store'
              /\ store'[item.id] = item
              /\ op.i < Len(op.syncedTodos) =>
                    /\ queue'[Len(queue')].kind = "sync"
                    /\ queue'[Len(queue')].syncedTodos = op.syncedTodos
                    /\ queue'[Len(queue')].i = op.i + 1

\* The pass that finishes replaces the list by its snapshot.
C12_ReplacesList == PassFinished' => todos' = FinishedSnapshot'

----------------------------------------------------------------------------
(* C13.  The pending count is the number of items of the list with synced  *)
(* false, and the pending banner is shown only when isOnline is false and  *)
(* the count is greater than 0.                                            *)

\* C13: in every state unsyncedCount is the number of positions of the
\* list that hold an item with synced = false, and whenever the banner is
\* rendered isOnline is false and some item of the list is pending.
C13_PendingCountAndBanner ==
    /\ unsyncedCount =
          Cardinality({ i \in 1..Len(todos) : todos[i].synced = FALSE })
    /\ PendingBanner =>
          /\ ~isOnline
          /\ unsyncedCount > 0
          /\ \E i \in 1..Len(todos) : ~todos[i].synced

\* The banner is shown for a list that holds a pending item and a synced
\* one.
C13_Witness ==
    /\ PendingBanner
    /\ unsyncedCount = 1
    /\ Len(todos) = 2

----------------------------------------------------------------------------
(* C14.  A pass changes nothing but synced flags: with no add, toggle or   *)
(* delete between its start and its completion, the ids on the list and    *)
(* each item's text, completed and createdAt are after the completion what *)
(* they were just before it, also for the pass started at startup.         *)

\* The items of a list without their synced flags.
ContentOf(s) ==
    { [id |-> s[i].id, text |-> s[i].text, completed |-> s[i].completed,
       createdAt |-> s[i].createdAt] : i \in 1..Len(s) }

\* C14 as stated: the step that completes a pass during which no add,
\* toggle or delete was invoked leaves the ids, texts, completed flags and
\* creation times of the list as they were.  It fails for the pass started
\* at mount: its snapshot is the empty list of the first render, and when
\* it completes after the initial load it replaces the loaded list by [].
C14_PassChangesOnlySynced ==
    [][ (PassFinished' /\ ~last'.op.dirty) =>
            ContentOf(todos') = ContentOf(todos) ]_vars

----------------------------------------------------------------------------
(* C15.  Operations on different items do not interfere: an add, toggle or *)
(* delete of one item never removes another item from the list and never   *)
(* changes another item's completed or synced field, even when the two     *)
(* operations overlap.                                                     *)

\* The item an add, toggle or delete is about.
TargetOf(op) == IF op.kind = "delete" THEN op.id ELSE op.todo.id

\* Every item of list s that was added in this run and has another id than
\* id is on list t with the same completed and synced fields.
OthersKept(s, t, id) ==
    \A i \in 1..Len(s) :
        (s[i].id # id /\ s[i].id \in SessionIds) =>
            \E j \in 1..Len(t) :
                /\ t[j].id = s[i].id
                /\ t[j].completed = s[i].completed
                /\ t[j].synced = s[i].synced

\* Only adds, toggles and deletes are in flight: the initial load has
\* returned and no pass is in progress.
OnlyCallsInFlight ==
    /\ mounted
    /\ timers = <<>>
    /\ \A i \in 1..Len(queue) : IsCall(queue[i])

\* C15 as stated: a step of an add, toggle or delete (its invocation, or
\* its resumption when its store call returns), taken while nothing but
\* adds, toggles and deletes is in flight, keeps every other item that was
\* added in this run on the list, completed and synced unchanged (the
\* items of earlier runs are left out, so that the initial load plays no
\* part).  It fails when two
\* operations overlap: each resumes with the list of the render that
\* invoked it, so the second to resume undoes what the first did.
C15_NoInterference ==
    [][ (/\ OnlyCallsInFlight
         /\ last'.act \in {"AddTodo", "ToggleTodo", "DeleteTodo", "DbOk"}
         /\ IsCall(last'.op)) =>
            OthersKept(todos, todos', TargetOf(last'.op)) ]_vars

----------------------------------------------------------------------------
(* C16.  Whenever no operation is in flight and no storage operation has   *)
(* failed, the list and the store hold exactly the same items: the same    *)
(* ids, and for each id the same text, completed and synced values.        *)

\* The initial load, every add, toggle and delete and every pass have
\* completed.
NothingInFlight == mounted /\ queue = <<>> /\ timers = <<>>

\* The id, text, completed and synced values of the items of the list.
ListItems ==
    { [id |-> todos[i].id, text |-> todos[i].text,
       completed |-> todos[i].completed, synced |-> todos[i].synced] :
          i \in 1..Len(todos) }

\* The same values of the records of the store.
StoreItems ==
    { [id |-> k, text |-> store[k].text, completed |-> store[k].completed,
       synced |-> store[k].synced] : k \in DOMAIN store }

\* C16 as stated.  It fails with every storage call succeeding: the pass
\* started at mount replaces the loaded list by its empty snapshot, and the
\* store keeps the items.
C16_ListMatchesStore ==
    (NothingInFlight /\ nfail = 0) => ListItems = StoreItems

----------------------------------------------------------------------------
(* C17.  No item's synced flag changes from false to true, in the list or  *)
(* in the store, in a step taken while isOnline is false.                  *)

\* The step marks an item of the list synced that was pending.
MarkedSyncedInMemory ==
    \E i \in 1..Len(todos), j \in 1..Len(todos') :
        /\ todos'[j].id = todos[i].id
        /\ ~todos[i].synced
        /\ todos'[j].synced

\* The step marks a record of the store synced that was pending.
MarkedSyncedInStore ==
    \E k \in DOMAIN store \cap DOMAIN store' :
        ~store[k].synced /\ store'[k].synced

\* The step is one of a reconciliation pass: its timer fires, or one of
\* its saves returns.
PassStep == last'.act = "TimerFires" \/ Resumed("sync")'

\* C17 as stated, for the steps of a pass: a step of a pass taken while
\* isOnline is false marks no item synced.  It fails: a pass does not look
\* at isOnline once it has started, so a pass started online that goes on
\* after the offline event marks its snapshot synced, in the store and on
\* the list.
C17_MarkedSyncedOnlyOnline ==
    [][ (~isOnline /\ PassStep) =>
            ~(MarkedSyncedInMemory \/ MarkedSyncedInStore) ]_vars

----------------------------------------------------------------------------
(* C18.  The Syncing indicator is shown exactly while at least one pass is *)
(* in progress, also when the passes of successive online events overlap.  *)

\* C18 as stated.  It fails when passes overlap: isSyncing is one boolean,
\* and the first pass to complete sets it to false while the other is
\* still in progress.
C18_SyncingIffPassInProgress ==
    SyncingShown <=> (PassesInProgress > 0)

====
